---- MODULE Spec2Model ----
(***************************************************************************)
(* Item store of the FastAPI demonstration service (src/app.py): the       *)
(* process-wide list items_db and the five request handlers over it.       *)
(* Every handler runs to completion as one step.                           *)
(***************************************************************************)
EXTENDS Integers, Sequences, FiniteSets, TLC

VARIABLES
    items_db,   \* the in-memory list of Item records
    request,    \* the request handled last: [op] with item_id, body as it has them
    response,   \* the response to it: [status] with items, item, message or detail
    follows,    \* monitor: what this request immediately follows, see Follows
    step,       \* monitor: progress through the scenario of the test suite
    created,    \* history: ids a Create produced and no later Delete removed
    deleted     \* history: [id, was_max] of every item a Delete removed

vars == <<items_db, request, response, follows, step, created, deleted>>

\* ---------------------------------------------------------------- bounds
\* Create is taken only while the id it assigns stays within MaxId.
MaxId == 4

\* ------------------------------------------------------------- constants
None == "None"              \* Optional[str] = None
NoSuchId == 999             \* the unknown id the tests ask for

OK == 200
CREATED == 201
NOT_FOUND == 404

\* ------------------------------------------------------- pydantic models
\* Mutant of ItemCreate: in_stock defaults to false.
ItemCreateStockFalse(json) ==
    [name        |-> json.name,
     description |-> IF "description" \in DOMAIN json THEN json.description ELSE None,
     price       |-> json.price,
     in_stock    |-> IF "in_stock" \in DOMAIN json THEN json.in_stock ELSE FALSE]

\* ItemCreate(**json): the optional fields take their defaults.
ItemCreate(json) ==
    [name        |-> json.name,
     description |-> IF "description" \in DOMAIN json THEN json.description ELSE None,
     price       |-> json.price,
     in_stock    |-> IF "in_stock" \in DOMAIN json THEN json.in_stock ELSE TRUE]

\* Mutant of Item: the description is not passed on.
ItemNoDescription(id, item) ==
    [id          |-> id,
     name        |-> item.name,
     description |-> None,
     price       |-> item.price,
     in_stock    |-> item.in_stock]

\* Item(id=id, **item.dict())
Item(id, item) ==
    [id          |-> id,
     name        |-> item.name,
     description |-> item.description,
     price       |-> item.price,
     in_stock    |-> item.in_stock]

\* The seed list the module is loaded with.
SeedItems ==
    << [id |-> 1, name |-> "Laptop", description |-> "High-performance laptop",
        price |-> 1200, in_stock |-> TRUE],
       [id |-> 2, name |-> "Mouse", description |-> "Wireless mouse",
        price |-> 25, in_stock |-> TRUE],
       [id |-> 3, name |-> "Keyboard", description |-> "Mechanical keyboard",
        price |-> 80, in_stock |-> FALSE] >>

\* ---------------------------------------------------------------- inputs
\* Request bodies the tests send: minimal, explicit in_stock, all fields.
MonitorBody == [name |-> "Monitor", price |-> 350]
UpdatedLaptopBody == [name |-> "Updated Laptop", price |-> 1500, in_stock |-> FALSE]
FullMonitorBody ==
    [name |-> "Monitor", description |-> "4K Monitor", price |-> 350, in_stock |-> TRUE]

Bodies == {MonitorBody, UpdatedLaptopBody, FullMonitorBody}
HistoryBodies == {MonitorBody}

ItemIds == (1 .. MaxId) \cup {NoSuchId}

\* --------------------------------------------------------------- helpers
Ids(db) == {db[i].id : i \in 1 .. Len(db)}

\* Mutant of MaxOf: the default is off by one.
MaxOfDefaultOne(S, d) == IF S = {} THEN d + 1 ELSE CHOOSE m \in S : \A x \in S : x <= m

\* max(xs, default=d)
MaxOf(S, d) == IF S = {} THEN d ELSE CHOOSE m \in S : \A x \in S : x <= m

\* Mutant of NewId: new_id = len(items_db) + 1
NewIdLen(db) == Len(db) + 1

\* new_id = max([i.id for i in items_db], default=0) + 1
NewId(db) == MaxOf(Ids(db), 0) + 1

\* Mutant of FindIndex: a miss yields the last index (Python's index -1).
FindIndexOrLast(db, item_id) ==
    IF \E i \in 1 .. Len(db) : db[i].id = item_id
    THEN CHOOSE i \in 1 .. Len(db) :
            /\ db[i].id = item_id
            /\ \A j \in 1 .. (i - 1) : db[j].id # item_id
    ELSE Len(db)

\* Mutant of FindIndex: the scan starts at the second item.
FindIndexSkipFirst(db, item_id) ==
    IF \E i \in 2 .. Len(db) : db[i].id = item_id
    THEN CHOOSE i \in 2 .. Len(db) :
            /\ db[i].id = item_id
            /\ \A j \in 2 .. (i - 1) : db[j].id # item_id
    ELSE 0

\* The index at which "for idx, item in enumerate(db): if item.id == item_id"
\* first succeeds, 0 when the loop falls through.
FindIndex(db, item_id) ==
    IF \E i \in 1 .. Len(db) : db[i].id = item_id
    THEN CHOOSE i \in 1 .. Len(db) :
            /\ db[i].id = item_id
            /\ \A j \in 1 .. (i - 1) : db[j].id # item_id
    ELSE 0

\* Mutant of Pop: list.pop() without the index.
PopLast(db, idx) == [i \in 1 .. (Len(db) - 1) |-> db[i]]

\* list.pop(idx)
Pop(db, idx) == [i \in 1 .. (Len(db) - 1) |-> IF i < idx THEN db[i] ELSE db[i + 1]]

\* Mutant of Replace: an absent description keeps the stored one (a merge).
ReplaceMerge(db, idx, item) ==
    [db EXCEPT ![idx] = IF item.description = None
                        THEN [item EXCEPT !.description = db[idx].description]
                        ELSE item]

\* items_db[idx] = updated_item
Replace(db, idx, item) == [db EXCEPT ![idx] = item]

\* raise HTTPException(status_code=404, detail=...)
NotFound(item_id) == [status |-> NOT_FOUND, detail |-> item_id]

\* -------------------------------------------------------------- monitors
\* The requests of the test scenario, in order.
Scenario ==
    << [op |-> "list"],
       [op |-> "create", body |-> MonitorBody],
       [op |-> "update", item_id |-> 1, body |-> UpdatedLaptopBody],
       [op |-> "delete", item_id |-> 1],
       [op |-> "get",    item_id |-> 1],
       [op |-> "get",    item_id |-> NoSuchId],
       [op |-> "delete", item_id |-> NoSuchId] >>

\* step counts the scenario requests handled so far, -1 once the run left it.
Advance(req) ==
    IF step >= 0 /\ step < Len(Scenario) /\ req = Scenario[step + 1]
    THEN step + 1
    ELSE -1

\* "create": req is a Get of the id the request just before it, a Create,
\* returned.  "delete": req is a Delete of the id the request just before it,
\* a successful Delete, removed.
Follows(req) ==
    IF req.op = "get" /\ request.op = "create" /\ req.item_id = response.item.id
    THEN "create"
    ELSE IF /\ req.op = "delete" /\ request.op = "delete"
            /\ response.status = OK /\ req.item_id = request.item_id
         THEN "delete"
         ELSE "none"

\* What every handler leaves behind: the request it served and its response.
Record(req, resp) ==
    /\ request' = req
    /\ response' = resp
    /\ follows' = Follows(req)
    /\ step' = Advance(req)

\* The id history of the step just taken: a Create adds the id it returned to
\* created, a successful Delete takes the id out of created and notes in
\* deleted whether the item held the largest id of the store it was in.
History ==
    /\ created' = IF request'.op = "create"
                  THEN created \cup {response'.item.id}
                  ELSE IF request'.op = "delete" /\ response'.status = OK
                       THEN created \ {response'.item.id}
                       ELSE created
    /\ deleted' = IF request'.op = "delete" /\ response'.status = OK
                  THEN deleted \cup
                       {[id |-> response'.item.id,
                         was_max |-> \A x \in Ids(items_db) : x <= response'.item.id]}
                  ELSE deleted

NoHistory == UNCHANGED <<created, deleted>>

DeletedIds == {d.id : d \in deleted}
SeedIds == Ids(SeedItems)

\* ------------------------------------------------------------------ Init
Init ==
    /\ items_db = SeedItems
    /\ request = [op |-> "none"]
    /\ response = [status |-> OK]
    /\ follows = "none"
    /\ step = 0
    /\ created = {}
    /\ deleted = {}

\* -------------------------------------------------------------- handlers
\* GET /items
get_items ==
    /\ Record([op |-> "list"], [status |-> OK, items |-> items_db])
    /\ UNCHANGED items_db

\* GET /items/{item_id}
get_item(item_id) ==
    LET idx == FindIndex(items_db, item_id) IN
    /\ Record([op |-> "get", item_id |-> item_id],
              IF idx # 0 THEN [status |-> OK, item |-> items_db[idx]]
              ELSE NotFound(item_id))
    /\ UNCHANGED items_db

\* POST /items
create_item(json) ==
    LET new_id == NewId(items_db)
        new_item == Item(new_id, ItemCreate(json)) IN
    /\ new_id <= MaxId
    /\ items_db' = Append(items_db, new_item)
    /\ Record([op |-> "create", body |-> json],
              [status |-> CREATED, item |-> new_item])

\* PUT /items/{item_id}
update_item(item_id, json) ==
    LET idx == FindIndex(items_db, item_id)
        updated_item == Item(item_id, ItemCreate(json)) IN
    /\ items_db' = IF idx # 0 THEN Replace(items_db, idx, updated_item) ELSE items_db
    /\ Record([op |-> "update", item_id |-> item_id, body |-> json],
              IF idx # 0 THEN [status |-> OK, item |-> updated_item]
              ELSE NotFound(item_id))

\* DELETE /items/{item_id}
delete_item(item_id) ==
    LET idx == FindIndex(items_db, item_id) IN
    /\ items_db' = IF idx # 0 THEN Pop(items_db, idx) ELSE items_db
    /\ Record([op |-> "delete", item_id |-> item_id],
              IF idx # 0
              THEN [status |-> OK, message |-> item_id, item |-> items_db[idx]]
              ELSE NotFound(item_id))

\* --------------------------------------------------------- specifications
\* Spec: requests with every body of Bodies; the id history is not recorded.
GetItems == get_items /\ NoHistory
GetItem == \E item_id \in ItemIds : get_item(item_id) /\ NoHistory
CreateItem == \E json \in Bodies : create_item(json) /\ NoHistory
UpdateItem == \E item_id \in ItemIds, json \in Bodies : update_item(item_id, json) /\ NoHistory
DeleteItem == \E item_id \in ItemIds : delete_item(item_id) /\ NoHistory

Next == GetItems \/ GetItem \/ CreateItem \/ UpdateItem \/ DeleteItem

Spec == Init /\ [][Next]_vars

\* SpecHistory: the same handlers with the id history recorded, over the
\* bodies of HistoryBodies (the fields of a body have no part in the ids).
HGetItems == get_items /\ History
HGetItem == \E item_id \in ItemIds : get_item(item_id) /\ History
HCreateItem == \E json \in HistoryBodies : create_item(json) /\ History
HUpdateItem ==
    \E item_id \in ItemIds, json \in HistoryBodies : update_item(item_id, json) /\ History
HDeleteItem == \E item_id \in ItemIds : delete_item(item_id) /\ History

NextHistory == HGetItems \/ HGetItem \/ HCreateItem \/ HUpdateItem \/ HDeleteItem

SpecHistory == Init /\ [][NextHistory]_vars

\* ---------------------------------------------------------------- claims
\* The values a body supplies, with the documented defaults for what it omits.
Supplied(json, id) ==
    [id          |-> id,
     name        |-> json.name,
     description |-> IF "description" \in DOMAIN json THEN json.description ELSE None,
     price       |-> json.price,
     in_stock    |-> IF "in_stock" \in DOMAIN json THEN json.in_stock ELSE TRUE]

IdSeq(db) == [i \in 1 .. Len(db) |-> db[i].id]

Without(db, id) ==
    LET Keep(it) == it.id # id IN SelectSeq(db, Keep)

\* C1: in every reachable state no two items of the store share an id.
C1_UniqueIds ==
    \A i, j \in 1 .. Len(items_db) :
        i # j => items_db[i].id # items_db[j].id

\* C1 witness: a Create has just given the id 3 again, after the Keyboard
\* was deleted.
C1_Witness ==
    /\ request.op = "create"
    /\ Len(items_db) = 3
    /\ response.item.id = 3
    /\ Ids(items_db) = {1, 2, 3}

\* C2: Create gives the new item the id max(ids) + 1, or 1 in an empty store,
\* appends exactly that item, leaves the others in place, defaults in_stock to
\* true when the body omits it, and returns the new item with status 201.
C2_Create ==
    [][request'.op = "create" =>
        LET new == response'.item IN
        /\ response'.status = CREATED
        /\ \A x \in Ids(items_db) : x < new.id
        /\ (items_db = << >> => new.id = 1)
        /\ (items_db # << >> => (new.id - 1) \in Ids(items_db))
        /\ Len(items_db') = Len(items_db) + 1
        /\ \A i \in 1 .. Len(items_db) : items_db'[i] = items_db[i]
        /\ items_db'[Len(items_db')] = new
        /\ ("in_stock" \notin DOMAIN request'.body => new.in_stock = TRUE)
        /\ new = Supplied(request'.body, new.id)]_vars

\* C2 witness: a Create without in_stock into the emptied store.
C2_Witness ==
    /\ request.op = "create"
    /\ "in_stock" \notin DOMAIN request.body
    /\ response.item.id = 1
    /\ items_db = << response.item >>
    /\ response.item.in_stock = TRUE

\* C3: Update of a stored id replaces that item, at its position, by the id
\* with exactly the supplied fields (description absent and in_stock true when
\* omitted); the length and the other items stay, the new item is returned.
C3_Update ==
    [][(request'.op = "update" /\ request'.item_id \in Ids(items_db)) =>
        /\ response'.status = OK
        /\ response'.item = Supplied(request'.body, request'.item_id)
        /\ Len(items_db') = Len(items_db)
        /\ \A i \in 1 .. Len(items_db) :
              items_db'[i] = IF items_db[i].id = request'.item_id
                             THEN response'.item
                             ELSE items_db[i]]_vars

\* C3 witness: the Keyboard (described, out of stock) updated by a body that
\* omits description and in_stock.
C3_Witness ==
    /\ request.op = "update"
    /\ request.item_id = 3
    /\ request.body = MonitorBody
    /\ response.status = OK
    /\ Len(items_db) = 3
    /\ items_db[3].description = None
    /\ items_db[3].in_stock = TRUE

\* C4: Delete of a stored id removes exactly the item with that id and returns
\* it; the others keep their order; repeating the Delete at once gives 404.
C4_Delete ==
    [][/\ (request'.op = "delete" /\ request'.item_id \in Ids(items_db)) =>
            /\ response'.status = OK
            /\ response'.item.id = request'.item_id
            /\ \E k \in 1 .. Len(items_db) : items_db[k] = response'.item
            /\ Len(items_db') = Len(items_db) - 1
            /\ items_db' = Without(items_db, request'.item_id)
       /\ (/\ request.op = "delete" /\ response.status = OK
           /\ request'.op = "delete" /\ request'.item_id = request.item_id) =>
            /\ response'.status = NOT_FOUND
            /\ items_db' = items_db]_vars

\* C4 witness: the second of two Deletes of one id, right after the first.
C4_Witness ==
    /\ follows = "delete"
    /\ request.op = "delete"
    /\ response.status = NOT_FOUND
    /\ Len(items_db) = 2

\* C5: Get, Update and Delete of an id no item has answer 404 and leave the
\* store as it was.
C5_NotFound ==
    [][(/\ request'.op \in {"get", "update", "delete"}
        /\ request'.item_id \notin Ids(items_db)) =>
        /\ response'.status = NOT_FOUND
        /\ items_db' = items_db]_vars

\* C5 witness: an Update of an id that was deleted before has been refused.
C5_Witness ==
    /\ request.op = "update"
    /\ request.item_id = 2
    /\ response.status = NOT_FOUND
    /\ Ids(items_db) = {1, 3}

\* C6 as stated: Get(id) returns an item iff a previous Create produced the
\* id and no later Delete removed it.
C6_Original ==
    request.op = "get" => (response.status = OK <=> request.item_id \in created)

\* C6 amended: Get(id) returns an item iff the id is a seed id or a previous
\* Create produced it, and no Delete after that removed it; no request other
\* than Create and Delete changes the ids of the stored items.
C6_Get ==
    [][/\ request'.op = "get" =>
            (response'.status = OK <=>
                request'.item_id \in created \cup (SeedIds \ DeletedIds))
       /\ request'.op \notin {"create", "delete"} =>
            IdSeq(items_db') = IdSeq(items_db)]_vars

\* C6 witness: a Get has returned a seed item that no Create produced.
C6_Witness ==
    /\ request.op = "get"
    /\ response.status = OK
    /\ request.item_id \in SeedIds \ created
    /\ deleted # {}

\* C7: a Get of the id a Create has just returned succeeds with the fields of
\* the Create and that id.
C7_RoundTrip ==
    [][(/\ request.op = "create"
        /\ request'.op = "get"
        /\ request'.item_id = response.item.id) =>
        /\ response'.status = OK
        /\ response'.item = Supplied(request.body, response.item.id)]_vars

\* C7 witness: the Get right after the Create of a body with a description.
C7_Witness ==
    /\ follows = "create"
    /\ request.op = "get"
    /\ response.status = OK
    /\ response.item.description = "4K Monitor"

\* C8 as stated: no Create assigns an id that a Delete removed before.
C8_Original ==
    [][request'.op = "create" => response'.item.id \notin DeletedIds]_vars

\* C8 amended: a Create assigns an id that a Delete removed before only when
\* every item then in the store has a smaller id.
C8_Reuse ==
    [][(request'.op = "create" /\ response'.item.id \in DeletedIds) =>
        \A x \in Ids(items_db) : x < response'.item.id]_vars

\* C8 witness: a Create has assigned a deleted id again.
C8_Witness ==
    /\ request.op = "create"
    /\ response.item.id \in DeletedIds
    /\ Len(items_db) > 1

\* C9 as stated: a Create assigns the id of a deleted item only if that item
\* did not hold the largest id when it was deleted.
C9_Original ==
    [][request'.op = "create" =>
        \A d \in deleted : d.id = response'.item.id => ~d.was_max]_vars

\* C9 amended: a Create assigns the id of a deleted item only if that item
\* held the largest id when it was deleted or an item with a larger id has
\* been deleted too.
C9_Reuse ==
    [][request'.op = "create" =>
        \A d \in deleted :
            d.id = response'.item.id =>
                d.was_max \/ \E e \in deleted : e.id > d.id]_vars

\* C9 witness: a Create has assigned the id of an item that did not hold the
\* largest id when it was deleted.
C9_Witness ==
    /\ request.op = "create"
    /\ \E d \in deleted : d.id = response.item.id /\ ~d.was_max

\* C10: the scenario List; Create(Monitor); Update(1); Delete(1); Get(1);
\* Get(999); Delete(999) from the seed store answers as the tests expect.
C10_Scenario ==
    LET updated == [id |-> 1, name |-> "Updated Laptop", description |-> None,
                    price |-> 1500, in_stock |-> FALSE] IN
    /\ step = 1 => /\ response.status = OK
                   /\ Len(response.items) = 3
                   /\ response.items[1].name = "Laptop"
                   /\ IdSeq(response.items) = <<1, 2, 3>>
    /\ step = 2 => /\ response.status = CREATED
                   /\ response.item.id = 4
                   /\ response.item.in_stock = TRUE
                   /\ Len(items_db) = 4
    /\ step = 3 => /\ response.status = OK
                   /\ response.item = updated
    /\ step = 4 => /\ response.status = OK
                   /\ response.item = updated
                   /\ Len(items_db) = 3
    /\ step \in {5, 6, 7} => /\ response.status = NOT_FOUND
                             /\ Len(items_db) = 3

\* C10 witness: the scenario has run to its end.
C10_Witness ==
    /\ step = 7
    /\ IdSeq(items_db) = <<2, 3, 4>>

====
